---- MODULE Spec2Model ----
(***************************************************************************)
(* scripts/generate_agent_metadata.py: scan .github/{prompts,toolsets,     *)
(* chatmodes}, extract a title and a description from every readable file  *)
(* and write build/agent_metadata.json.                                    *)
(*                                                                         *)
(* A text is a sequence of one-character strings.  Two specifications:     *)
(*   SpecExtract  extract_title_and_description on every text up to MaxLen *)
(*   Spec         main(): the scan of the three sections and the write     *)
(***************************************************************************)
EXTENDS Integers, Sequences, FiniteSets, TLC

VARIABLES
    tree,        \* the directory tree under .github, unchanged by the script
    outDir,      \* whether build/ exists
    outFile,     \* None, or Some(content of build/agent_metadata.json)
    clock,       \* datetime.utcnow()
    run,         \* "first" or "second" run of main() over the tree
    pc,          \* where the run is
    sec,         \* main: position in SECTIONS.items()
    listing,     \* scan_section: sorted(path.glob('**/*'))
    idx,         \* scan_section: position in listing
    items,       \* scan_section: items
    all_items,   \* main: all_items
    writes,      \* calls of OUT_FILE.write_text in this run
    mkdirs,      \* calls of OUT_DIR.mkdir in this run that returned
    printed,     \* None, or Some(count) once the report is printed
    exitCode,    \* None, or Some(exit status) once the process has ended
    raisedAt,    \* None, or Some(call) that raised an exception in this run
    fileBefore,  \* outFile as it was when this run started
    prevItems,   \* None, or Some(all_items of the first run)
    text,        \* extract_title_and_description: text
    title,       \* extract_title_and_description: title (Optional)
    desc,        \* extract_title_and_description: desc (Optional)
    result       \* None, or Some(<<title, description>>) returned

fsVars == <<tree, outDir, outFile, clock>>

mainVars == <<run, sec, listing, idx, items, all_items, writes, mkdirs, printed,
              exitCode, raisedAt, fileBefore, prevItems>>

extractVars == <<text, title, desc, result>>

vars == <<fsVars, pc, mainVars, extractVars>>

\* ------------------------------------------------------------------ bounds

\* longest text handed to extract_title_and_description under SpecExtract
MaxLen == 5

\* most directory entries (files and directories) under .github in one tree
MaxEntries == 3

\* ------------------------------------------------------------- characters

\* "\n" and "\r" are line boundaries of str.splitlines; with " " they are
\* the whitespace of str.strip and of the regular expression class \s
Char == {"#", " ", "\n", "\r", "a"}

IsSpace(c) == c \in {" ", "\n", "\r"}

IsLineBreak(c) == c \in {"\n", "\r"}

Min(S) == CHOOSE x \in S : \A y \in S : x <= y

Max(S) == CHOOSE x \in S : \A y \in S : x >= y

\* Optional values: None, or Some(x) holding x
None == <<>>

Some(x) == <<x>>

\* ---------------------------------------------------------- str operations

\* str.strip(): leading and trailing whitespace removed
strip(s) ==
    LET keep == {i \in 1..Len(s) : ~IsSpace(s[i])}
    IN  IF keep = {} THEN <<>> ELSE SubSeq(s, Min(keep), Max(keep))

\* str.startswith('#')
startswith_hash(s) == Len(s) > 0 /\ s[1] = "#"

\* str.splitlines(): "\r\n" is one boundary, no empty last line after a
\* final boundary, no line at all for the empty text
RECURSIVE splitlines(_)
splitlines(s) ==
    LET n == Len(s)
        brk == {i \in 1..n : IsLineBreak(s[i])}
    IN  IF n = 0 THEN <<>>
        ELSE IF brk = {} THEN <<s>>
        ELSE LET i == Min(brk)
                 j == IF s[i] = "\r" /\ i < n /\ s[i + 1] = "\n" THEN i + 1 ELSE i
             IN  <<SubSeq(s, 1, i - 1)>> \o splitlines(SubSeq(s, j + 1, n))

\* re.sub(r'^#+\s*', '', line): the leading run of '#' and the whitespace
\* after it are removed; a line with no leading '#' is returned unchanged
re_sub_header(line) ==
    LET n == Len(line)
        nonhash == {i \in 1..n : line[i] # "#"}
        h == IF nonhash = {} THEN n + 1 ELSE Min(nonhash)
        nonspace == {i \in h..n : ~IsSpace(line[i])}
        k == IF nonspace = {} THEN n + 1 ELSE Min(nonspace)
    IN  IF h = 1 THEN line ELSE SubSeq(line, k, n)

\* the ends j of the matches of \n\s*\n that start at position i of s
MatchEnds(s, i) ==
    {j \in (i + 1)..Len(s) :
        s[i] = "\n" /\ s[j] = "\n" /\ \A k \in (i + 1)..(j - 1) : IsSpace(s[k])}

\* re.split(r"\n\s*\n", s): the leftmost match, at its greedy (longest)
\* extent, is cut out, and the rest is split the same way
RECURSIVE re_split(_)
re_split(s) ==
    LET n == Len(s)
        starts == {i \in 1..n : MatchEnds(s, i) # {}}
    IN  IF starts = {} THEN <<s>>
        ELSE LET i == Min(starts)
                 j == Max(MatchEnds(s, i))
             IN  <<SubSeq(s, 1, i - 1)>> \o re_split(SubSeq(s, j + 1, n))

\* str.replace('\n', ' ')
replace_newlines(p) == [i \in 1..Len(p) |-> IF p[i] = "\n" THEN " " ELSE p[i]]

\* ------------------------------------------ extract_title_and_description

\* lines 34-38: the first line that, stripped, starts with '#', gives the
\* title: the line without its header marker, stripped; None without one
header_title(s) ==
    LET lines == splitlines(s)
        hdr == {i \in 1..Len(lines) : startswith_hash(strip(lines[i]))}
    IN  IF hdr = {} THEN None
        ELSE Some(strip(re_sub_header(strip(lines[Min(hdr)]))))

\* fallback_title with the chosen line kept as it is, not stripped
fallback_title_unstripped(s) ==
    LET lines == splitlines(s)
        full == {i \in 1..Len(lines) : strip(lines[i]) # <<>>}
    IN  IF full = {} THEN None ELSE Some(lines[Min(full)])

\* lines 41-44: the first line that is not empty once stripped, stripped
fallback_title(s) ==
    LET lines == splitlines(s)
        full == {i \in 1..Len(lines) : strip(lines[i]) # <<>>}
    IN  IF full = {} THEN None ELSE Some(strip(lines[Min(full)]))

\* "not title": None and '' are both falsy
falsy(opt) == opt = None \/ opt[1] = <<>>

\* lines 33-44
title_of(s) ==
    LET t == header_title(s)
    IN  IF falsy(t)
        THEN LET f == fallback_title(s) IN IF f = None THEN t ELSE f
        ELSE t

\* is_header_paragraph with the test of line 53 left out
is_header_paragraph_never(p) == FALSE

\* line 53: a paragraph that starts with '#' is passed over
is_header_paragraph(p) == startswith_hash(p)

\* lines 49-56: the paragraphs, stripped, that are neither empty nor headers
qualifying(paragraphs) ==
    {i \in 1..Len(paragraphs) :
        /\ strip(paragraphs[i]) # <<>>
        /\ ~is_header_paragraph(strip(paragraphs[i]))}

\* lines 47-56
desc_of(s) ==
    LET paragraphs == re_split(strip(s))
        q == qualifying(paragraphs)
    IN  IF q = {} THEN None
        ELSE Some(strip(replace_newlines(strip(paragraphs[Min(q)]))))

\* line 58: "x or ''"
or_empty(opt) == IF falsy(opt) THEN <<>> ELSE opt[1]

extract_title_and_description(s) == <<or_empty(title_of(s)), or_empty(desc_of(s))>>

\* ----------------------------------------------------------- SpecExtract

Texts == UNION {[1..n -> Char] : n \in 0..MaxLen}

InitExtract ==
    /\ text \in Texts
    /\ title = None /\ desc = None /\ result = None
    /\ pc = "extract_title"
    /\ tree = <<>> /\ outDir = FALSE /\ outFile = None /\ clock = 0
    /\ run = "first" /\ sec = 1 /\ listing = <<>> /\ idx = 1
    /\ items = <<>> /\ all_items = <<>> /\ writes = 0 /\ mkdirs = 0
    /\ printed = None /\ exitCode = None /\ raisedAt = None
    /\ fileBefore = None /\ prevItems = None

\* lines 33-44
ExtractTitle ==
    /\ pc = "extract_title"
    /\ title' = title_of(text)
    /\ pc' = "extract_desc"
    /\ UNCHANGED <<text, desc, result, fsVars, mainVars>>

\* lines 47-56
ExtractDesc ==
    /\ pc = "extract_desc"
    /\ desc' = desc_of(text)
    /\ pc' = "extract_return"
    /\ UNCHANGED <<text, title, result, fsVars, mainVars>>

\* line 58
ExtractReturn ==
    /\ pc = "extract_return"
    /\ result' = Some(<<or_empty(title), or_empty(desc)>>)
    /\ pc' = "extract_done"
    /\ UNCHANGED <<text, title, desc, fsVars, mainVars>>

NextExtract ==
    \/ ExtractTitle
    \/ ExtractDesc
    \/ ExtractReturn

SpecExtract == InitExtract /\ [][NextExtract]_vars

\* -------------------------------------------------------------- the tree

\* lines 24-28: SECTIONS, in the order of insertion, each directory as its
\* path relative to ROOT
SECTIONS ==
    << [name |-> "prompts",   path |-> <<".github", "prompts">>],
       [name |-> "toolsets",  path |-> <<".github", "toolsets">>],
       [name |-> "chatmodes", path |-> <<".github", "chatmodes">>] >>

\* The names a directory entry can have, in their sorting order: entry name
\* k is the k-th string of NameStr, and NameText is the same name as a text.
NameStr == <<"a", "aa">>

NameText == << <<"a">>, <<"a", "a">> >>

\* The places below a section directory where an entry can be: two entries
\* at the top, and one inside the second if that is a directory.
RelPaths == {<<1>>, <<2>>, <<2, 1>>}

\* the place that can be a directory
DirPaths == {<<2>>}

\* What a readable file can hold: nothing, a header with a paragraph after
\* it, a text without header.
EmptyText == <<>>

HeaderText == <<"#", "a", "\n", "\n", "a">>

PlainText == <<"a", " ", "a">>

FileTexts == {EmptyText, HeaderText, PlainText}

\* A directory entry: a directory, a file whose read_text raises, or a file
\* read_text returns the text of.
Entries ==
    {[parts |-> r, kind |-> "dir", readable |-> FALSE, text |-> EmptyText] : r \in DirPaths}
    \cup {[parts |-> r, kind |-> "file", readable |-> FALSE, text |-> EmptyText] : r \in RelPaths}
    \cup {[parts |-> r, kind |-> "file", readable |-> TRUE, text |-> t] :
              r \in RelPaths, t \in FileTexts}

\* the entry sets that are directory trees: one entry per place, and an
\* entry inside another only if that one is a directory
IsTree(T) ==
    /\ \A e, f \in T : e.parts = f.parts => e = f
    /\ \A e \in T : Len(e.parts) > 1 =>
           \E d \in T : d.kind = "dir" /\ d.parts = SubSeq(e.parts, 1, Len(e.parts) - 1)

SectionTrees ==
    {[exists |-> FALSE, entries |-> {}]}
    \cup {[exists |-> TRUE, entries |-> T] :
              T \in {U \in SUBSET Entries : Cardinality(U) <= MaxEntries /\ IsTree(U)}}

Trees ==
    {t \in [1..Len(SECTIONS) -> SectionTrees] :
        Cardinality(t[1].entries) + Cardinality(t[2].entries)
            + Cardinality(t[3].entries) <= MaxEntries}

\* ---------------------------------------------------------- scan_section

\* path_less with the paths compared by their last part, the file name, alone
path_less_by_name(p, q) == p # <<>> /\ q # <<>> /\ p[Len(p)] < q[Len(q)]

\* Path.__lt__: the parts of two paths compared as sequences, an entry name
\* by its place in the sorting order of names
RECURSIVE path_less(_, _)
path_less(p, q) ==
    IF p = <<>> THEN q # <<>>
    ELSE IF q = <<>> THEN FALSE
    ELSE IF Head(p) # Head(q) THEN Head(p) < Head(q)
    ELSE path_less(Tail(p), Tail(q))

\* where sorted() puts e in the sorted sequence srt
RECURSIVE insert(_, _)
insert(e, srt) ==
    IF srt = <<>> THEN <<e>>
    ELSE IF path_less(e.parts, Head(srt).parts) THEN <<e>> \o srt
    ELSE <<Head(srt)>> \o insert(e, Tail(srt))

RECURSIVE insertion_sort(_)
insertion_sort(seq) ==
    IF seq = <<>> THEN <<>> ELSE insert(seq[Len(seq)], insertion_sort(SubSeq(seq, 1, Len(seq) - 1)))

\* sorted with the paths left in the order glob yielded them
sorted_unsorted(seq) == seq

\* line 65: sorted(...) of the paths glob yields, all below the same
\* directory, so that their order is the order of their parts below it
sorted(seq) == insertion_sort(seq)

\* the orders in which path.glob('**/*') can yield the entries of T
GlobOrders(T) ==
    {o \in [1..Cardinality(T) -> T] : \A i, j \in 1..Cardinality(T) : o[i] = o[j] => i = j}

\* lines 73-80: the record of entry e, read as text, of the section
make_record(section, e, extracted) ==
    [path        |-> section.path \o [i \in 1..Len(e.parts) |-> NameStr[e.parts[i]]],
     type        |-> section.name,
     filename    |-> NameText[e.parts[Len(e.parts)]],
     title       |-> extracted[1],
     description |-> extracted[2]]

\* ScanMissing with the missing directory raising instead of returning
ScanMissing_raises ==
    /\ pc = "main_loop"
    /\ sec <= Len(SECTIONS)
    /\ ~tree[sec].exists
    /\ pc' = "failed"
    /\ raisedAt' = Some("glob")
    /\ exitCode' = Some(1)
    /\ UNCHANGED <<fsVars, run, sec, listing, idx, items, all_items, writes, mkdirs,
                   printed, fileBefore, prevItems, extractVars>>

\* line 63-64 and 86-88: the directory does not exist, scan_section returns
\* no item and main extends all_items by none
ScanMissing ==
    /\ pc = "main_loop"
    /\ sec <= Len(SECTIONS)
    /\ ~tree[sec].exists
    /\ sec' = sec + 1
    /\ items' = <<>>
    /\ all_items' = all_items \o <<>>
    /\ UNCHANGED <<fsVars, pc, run, listing, idx, writes, mkdirs, printed, exitCode,
                   raisedAt, fileBefore, prevItems, extractVars>>

\* lines 62-65: the directory exists; its entries, in whatever order glob
\* yields them, are sorted
ScanGlob ==
    /\ pc = "main_loop"
    /\ sec <= Len(SECTIONS)
    /\ tree[sec].exists
    /\ \E o \in GlobOrders(tree[sec].entries) : listing' = sorted(o)
    /\ idx' = 1
    /\ items' = <<>>
    /\ pc' = "scan_section"
    /\ UNCHANGED <<fsVars, run, sec, all_items, writes, mkdirs, printed, exitCode,
                   raisedAt, fileBefore, prevItems, extractVars>>

\* lines 66-67
SkipDir ==
    /\ pc = "scan_section"
    /\ idx <= Len(listing)
    /\ listing[idx].kind = "dir"
    /\ idx' = idx + 1
    /\ UNCHANGED <<fsVars, pc, run, sec, listing, items, all_items, writes, mkdirs,
                   printed, exitCode, raisedAt, fileBefore, prevItems, extractVars>>

\* ReadFail with the exception of read_text not caught
ReadFail_aborts ==
    /\ pc = "scan_section"
    /\ idx <= Len(listing)
    /\ listing[idx].kind = "file"
    /\ ~listing[idx].readable
    /\ pc' = "failed"
    /\ raisedAt' = Some("read_text")
    /\ exitCode' = Some(1)
    /\ UNCHANGED <<fsVars, run, sec, listing, idx, items, all_items, writes, mkdirs,
                   printed, fileBefore, prevItems, extractVars>>

\* lines 68-72: read_text raises, the file is passed over
ReadFail ==
    /\ pc = "scan_section"
    /\ idx <= Len(listing)
    /\ listing[idx].kind = "file"
    /\ ~listing[idx].readable
    /\ idx' = idx + 1
    /\ UNCHANGED <<fsVars, pc, run, sec, listing, items, all_items, writes, mkdirs,
                   printed, exitCode, raisedAt, fileBefore, prevItems, extractVars>>

\* lines 68-80: read_text returns, the record is appended
ReadOk ==
    /\ pc = "scan_section"
    /\ idx <= Len(listing)
    /\ listing[idx].kind = "file"
    /\ listing[idx].readable
    /\ text' = listing[idx].text
    /\ title' = title_of(text')
    /\ desc' = desc_of(text')
    /\ result' = Some(extract_title_and_description(text'))
    /\ items' = Append(items, make_record(SECTIONS[sec], listing[idx], result'[1]))
    /\ idx' = idx + 1
    /\ UNCHANGED <<fsVars, pc, run, sec, listing, all_items, writes, mkdirs, printed,
                   exitCode, raisedAt, fileBefore, prevItems>>

\* ReturnItems with the output file written after every section
ReturnItems_dumps ==
    /\ pc = "scan_section"
    /\ idx > Len(listing)
    /\ all_items' = all_items \o items
    /\ sec' = sec + 1
    /\ pc' = "main_loop"
    /\ outDir' = TRUE
    /\ outFile' = Some([complete |-> TRUE, generated_at |-> clock, items |-> all_items'])
    /\ writes' = writes + 1
    /\ UNCHANGED <<tree, clock, run, listing, idx, items, mkdirs, printed, exitCode,
                   raisedAt, fileBefore, prevItems, extractVars>>

\* lines 81 and 86-88: scan_section returns items, main extends all_items
ReturnItems ==
    /\ pc = "scan_section"
    /\ idx > Len(listing)
    /\ all_items' = all_items \o items
    /\ sec' = sec + 1
    /\ pc' = "main_loop"
    /\ UNCHANGED <<fsVars, run, listing, idx, items, writes, mkdirs, printed, exitCode,
                   raisedAt, fileBefore, prevItems, extractVars>>

\* ------------------------------------------------------------------ main

\* line 91: the document handed to write_text
document == [complete |-> TRUE, generated_at |-> clock, items |-> all_items]

\* line 91: what a write_text that raised after it had opened and truncated
\* the file leaves of it: not the whole document
partial_document == [complete |-> FALSE, generated_at |-> clock, items |-> <<>>]

\* line 90: OUT_DIR.mkdir(parents=True, exist_ok=True) returns
Mkdir ==
    /\ pc = "main_loop"
    /\ sec > Len(SECTIONS)
    /\ outDir' = TRUE
    /\ mkdirs' = mkdirs + 1
    /\ pc' = "write"
    /\ UNCHANGED <<tree, outFile, clock, run, sec, listing, idx, items, all_items, writes,
                   printed, exitCode, raisedAt, fileBefore, prevItems, extractVars>>

\* line 90: mkdir raises, nothing catches it, the process ends with status 1
MkdirFail ==
    /\ pc = "main_loop"
    /\ sec > Len(SECTIONS)
    /\ pc' = "failed"
    /\ raisedAt' = Some("mkdir")
    /\ exitCode' = Some(1)
    /\ UNCHANGED <<fsVars, run, sec, listing, idx, items, all_items, writes, mkdirs,
                   printed, fileBefore, prevItems, extractVars>>

\* line 91: write_text returns
WriteOk ==
    /\ pc = "write"
    /\ outFile' = Some(document)
    /\ writes' = writes + 1
    /\ pc' = "print"
    /\ UNCHANGED <<tree, outDir, clock, run, sec, listing, idx, items, all_items, mkdirs,
                   printed, exitCode, raisedAt, fileBefore, prevItems, extractVars>>

\* WriteFail with the exception of write_text caught and the run going on
WriteFail_swallowed ==
    /\ pc = "write"
    /\ outFile' \in {outFile, Some(partial_document)}
    /\ writes' = writes + 1
    /\ pc' = "print"
    /\ raisedAt' = Some("write")
    /\ UNCHANGED <<tree, outDir, clock, run, sec, listing, idx, items, all_items, mkdirs,
                   printed, exitCode, fileBefore, prevItems, extractVars>>

\* line 91: write_text raises, nothing catches it, the process ends with
\* status 1
WriteFail ==
    /\ pc = "write"
    /\ outFile' \in {outFile, Some(partial_document)}
    /\ writes' = writes + 1
    /\ pc' = "failed"
    /\ raisedAt' = Some("write")
    /\ exitCode' = Some(1)
    /\ UNCHANGED <<tree, outDir, clock, run, sec, listing, idx, items, all_items, mkdirs,
                   printed, fileBefore, prevItems, extractVars>>

\* lines 92 and 95-96: the report, and the process ends with status 0
PrintReport ==
    /\ pc = "print"
    /\ printed' = Some(Len(all_items))
    /\ exitCode' = Some(0)
    /\ pc' = "done"
    /\ UNCHANGED <<fsVars, run, sec, listing, idx, items, all_items, writes, mkdirs,
                   raisedAt, fileBefore, prevItems, extractVars>>

\* lines 95-96: the script is run again, later, over the same tree
RunAgain ==
    /\ pc \in {"done", "failed"}
    /\ run = "first"
    /\ run' = "second"
    /\ clock' = clock + 1
    /\ prevItems' = Some(all_items)
    /\ fileBefore' = outFile
    /\ pc' = "main_loop"
    /\ sec' = 1 /\ listing' = <<>> /\ idx' = 1 /\ items' = <<>> /\ all_items' = <<>>
    /\ writes' = 0 /\ mkdirs' = 0
    /\ printed' = None /\ exitCode' = None /\ raisedAt' = None
    /\ text' = <<>> /\ title' = None /\ desc' = None /\ result' = None
    /\ UNCHANGED <<tree, outDir, outFile>>

Init ==
    /\ tree \in Trees
    /\ outDir = FALSE /\ outFile = None /\ clock = 1
    /\ run = "first" /\ pc = "main_loop"
    /\ sec = 1 /\ listing = <<>> /\ idx = 1 /\ items = <<>> /\ all_items = <<>>
    /\ writes = 0 /\ mkdirs = 0
    /\ printed = None /\ exitCode = None /\ raisedAt = None
    /\ fileBefore = None /\ prevItems = None
    /\ text = <<>> /\ title = None /\ desc = None /\ result = None

Next ==
    \/ ScanMissing
    \/ ScanGlob
    \/ SkipDir
    \/ ReadFail
    \/ ReadOk
    \/ ReturnItems
    \/ Mkdir
    \/ MkdirFail
    \/ WriteOk
    \/ WriteFail
    \/ PrintReport
    \/ RunAgain

Spec == Init /\ [][Next]_vars

\* ------------------------------------------------- claims under SpecExtract

Returned == pc = "extract_done"

\* the first line of s that is not empty once trimmed, trimmed; <<>> if none
FirstNonEmptyLine(s) ==
    LET lines == splitlines(s)
        full == {i \in 1..Len(lines) : strip(lines[i]) # <<>>}
    IN  IF full = {} THEN <<>> ELSE strip(lines[Min(full)])

\* l without its leading '#' characters
RECURSIVE DropHashes(_)
DropHashes(l) == IF startswith_hash(l) THEN DropHashes(Tail(l)) ELSE l

\* C1: when the first non-empty line of the text, trimmed, starts with '#',
\* the returned title is that line without its leading '#' characters and
\* without the whitespace around what is left, also when nothing is left.
C1_TitleIsHeaderText ==
    (Returned /\ startswith_hash(FirstNonEmptyLine(text)))
        => result[1][1] = strip(DropHashes(FirstNonEmptyLine(text)))

\* the pieces of s between its "\n" characters
RECURSIVE SplitNewline(_)
SplitNewline(s) ==
    LET nl == {i \in 1..Len(s) : s[i] = "\n"}
    IN  IF nl = {} THEN <<s>>
        ELSE <<SubSeq(s, 1, Min(nl) - 1)>> \o SplitNewline(SubSeq(s, Min(nl) + 1, Len(s)))

\* a blank line holds nothing but whitespace
Blank(l) == \A i \in 1..Len(l) : IsSpace(l[i])

\* the paragraphs of a sequence of lines: the maximal runs of lines that are
\* not blank, each run joined by "\n"; cur is the run being read, if any
RECURSIVE ParagraphsOf(_, _)
ParagraphsOf(lines, cur) ==
    IF lines = <<>> THEN cur
    ELSE IF Blank(Head(lines)) THEN cur \o ParagraphsOf(Tail(lines), <<>>)
    ELSE ParagraphsOf(Tail(lines),
                      IF cur = <<>> THEN <<Head(lines)>>
                      ELSE <<cur[1] \o <<"\n">> \o Head(lines)>>)

\* the first paragraph of the trimmed text that does not begin with '#',
\* its newlines turned into spaces, trimmed; <<>> if there is none
FirstParagraph(s) ==
    LET ps == ParagraphsOf(SplitNewline(strip(s)), <<>>)
        q == {i \in 1..Len(ps) : ~startswith_hash(strip(ps[i]))}
    IN  IF q = {} THEN <<>>
        ELSE strip([i \in 1..Len(strip(ps[Min(q)])) |->
                       IF strip(ps[Min(q)])[i] = "\n" THEN " " ELSE strip(ps[Min(q)])[i]])

\* C2: the returned description is the first blank-line-separated paragraph
\* of the trimmed text that does not begin with '#', newlines replaced by
\* spaces and trimmed, or the empty string when there is none; it never
\* starts with '#' and never contains a newline.
C2_DescriptionIsFirstParagraph ==
    Returned =>
        /\ result[1][2] = FirstParagraph(text)
        /\ ~startswith_hash(result[1][2])
        /\ \A i \in 1..Len(result[1][2]) : result[1][2][i] # "\n"

\* a header paragraph was passed over and a later paragraph was returned
C2_Witness ==
    /\ Returned
    /\ startswith_hash(strip(text))
    /\ result[1][2] # <<>>

NoHeaderLine(s) ==
    \A i \in 1..Len(splitlines(s)) : ~startswith_hash(strip(splitlines(s)[i]))

ScanComplete == sec > Len(SECTIONS)

SectionsOfTree == 1..Len(SECTIONS)

\* the path, relative to ROOT, of entry e of section k
PathOf(k, e) == SECTIONS[k].path \o [i \in 1..Len(e.parts) |-> NameStr[e.parts[i]]]

\* the files of the tree whose read succeeds, each with its section
ReadableFiles ==
    UNION {{<<k, e>> : e \in {x \in tree[k].entries : x.kind = "file" /\ x.readable}} :
              k \in SectionsOfTree}

\* the record the file e of section k is to have, whatever else is in the tree
RecordOf(k, e) ==
    LET extracted == extract_title_and_description(e.text)
    IN  [path        |-> PathOf(k, e),
         type        |-> SECTIONS[k].name,
         filename    |-> NameText[e.parts[Len(e.parts)]],
         title       |-> extracted[1],
         description |-> extracted[2]]

\* C4: once the scan is complete, all_items holds exactly one record for
\* every file of an existing section whose read succeeded (empty files
\* included), that record being the one the file has on its own, and no
\* record for anything else; no read failure raises out of the scan, and the
\* count reported is the number of records.
C4_ReadableFilesRecorded ==
    /\ ScanComplete =>
        /\ \A f \in ReadableFiles :
               LET rec == RecordOf(f[1], f[2])
               IN  /\ Cardinality({i \in 1..Len(all_items) : all_items[i].path = rec.path}) = 1
                   /\ \E i \in 1..Len(all_items) : all_items[i] = rec
        /\ \A i \in 1..Len(all_items) :
               \E f \in ReadableFiles : all_items[i].path = PathOf(f[1], f[2])
        /\ Len(all_items) = Cardinality(ReadableFiles)
    /\ raisedAt # None => ScanComplete
    /\ printed # None => printed[1] = Len(all_items)

\* a finished run over a section that holds an unreadable file and a readable
\* empty file
C4_Witness ==
    /\ pc = "done"
    /\ \E k \in SectionsOfTree :
           /\ \E e \in tree[k].entries : e.kind = "file" /\ ~e.readable
           /\ \E e \in tree[k].entries : e.kind = "file" /\ e.readable /\ e.text = <<>>
    /\ printed = Some(1)

\* the declared order of the sections
SectionRank(name) ==
    CASE name = "prompts" -> 1
      [] name = "toolsets" -> 2
      [] name = "chatmodes" -> 3

\* the place of an entry name in the sorting order of names
NameRank(n) == CHOOSE k \in 1..Len(NameStr) : NameStr[k] = n

\* path p sorts before path q, both below the same section directory
RECURSIVE SortsBefore(_, _)
SortsBefore(p, q) ==
    IF p = <<>> THEN q # <<>>
    ELSE IF q = <<>> THEN FALSE
    ELSE IF Head(p) # Head(q) THEN NameRank(Head(p)) < NameRank(Head(q))
    ELSE SortsBefore(Tail(p), Tail(q))

\* C5: in all_items the records of 'prompts' come before those of 'toolsets',
\* which come before those of 'chatmodes'; within a section the records are
\* in ascending order of path; and the type of a record names the section
\* whose directory its path is under.
C5_ItemsInSectionAndPathOrder ==
    /\ \A i, j \in 1..Len(all_items) :
           i < j =>
               \/ SectionRank(all_items[i].type) < SectionRank(all_items[j].type)
               \/ /\ all_items[i].type = all_items[j].type
                  /\ SortsBefore(SubSeq(all_items[i].path, 3, Len(all_items[i].path)),
                                 SubSeq(all_items[j].path, 3, Len(all_items[j].path)))
    /\ \A i \in 1..Len(all_items) :
           SubSeq(all_items[i].path, 1, 2) = <<".github", all_items[i].type>>

\* a complete scan of the second run with two records of 'toolsets', the
\* second of them of a file in a subdirectory
C5_Witness ==
    /\ run = "second"
    /\ ScanComplete
    /\ Len(all_items) = 2
    /\ all_items[1].type = "toolsets"
    /\ all_items[2].type = "toolsets"
    /\ Len(all_items[1].path) = 3
    /\ Len(all_items[2].path) = 4

\* C6: a section whose directory does not exist contributes no record, no
\* exception comes out of the scan, and the run stays in the scan, not
\* ended, until every section has been scanned, whichever directories are
\* missing.
C6_MissingSectionIsEmpty ==
    /\ \A i \in 1..Len(all_items) : tree[SectionRank(all_items[i].type)].exists
    /\ \A k \in SectionsOfTree :
           (~tree[k].exists /\ pc = "main_loop" /\ sec = k + 1) =>
               /\ items = <<>>
               /\ \A i \in 1..Len(all_items) : all_items[i].type # SECTIONS[k].name
    /\ raisedAt # None => (ScanComplete /\ raisedAt[1] \in {"mkdir", "write"})
    /\ ~ScanComplete => (pc \in {"main_loop", "scan_section"} /\ exitCode = None)

\* none of the three directories exists and the run is at the write
C6_Witness ==
    /\ \A k \in SectionsOfTree : ~tree[k].exists
    /\ pc = "write"
    /\ all_items = <<>>
    /\ raisedAt = None

\* C7: the second run over the unchanged tree ends its scan with the same
\* records in the same order as the first.
C7_SecondRunSameItems ==
    (run = "second" /\ ScanComplete) => all_items = prevItems[1]

\* the second run has scanned a section of two files and another of one
C7_Witness ==
    /\ run = "second"
    /\ ScanComplete
    /\ Len(all_items) = 3
    /\ all_items[1].type = all_items[2].type
    /\ all_items[2].type # all_items[3].type

\* C8: a run calls write_text at most once, only after every section has
\* been scanned and mkdir has returned; until the scan is complete the output
\* file is as it was when the run started.
C8_WrittenOnceAfterScan ==
    /\ writes <= 1
    /\ ~ScanComplete => (writes = 0 /\ outFile = fileBefore)
    /\ writes > 0 => (ScanComplete /\ mkdirs > 0 /\ outDir)
    /\ writes = 0 => outFile = fileBefore

\* the second run has written its document over the first run's
C8_Witness ==
    /\ run = "second"
    /\ pc = "print"
    /\ writes = 1
    /\ fileBefore # None
    /\ outFile = Some(document)
    /\ Len(all_items) >= 2

\* C9: when mkdir or write_text raises, the run is over, failed, with exit
\* status 1, the write is not made again and nothing is reported; the report
\* comes only after write_text has returned, with exit status 0.
C9_WriteFailureIsFatal ==
    /\ raisedAt # None =>
           /\ pc = "failed"
           /\ exitCode = Some(1)
           /\ printed = None
           /\ ~ENABLED WriteOk /\ ~ENABLED WriteFail /\ ~ENABLED PrintReport
    /\ pc = "failed" => raisedAt # None
    /\ writes <= 1
    /\ printed # None =>
           /\ raisedAt = None
           /\ writes = 1
           /\ outFile = Some(document)
           /\ exitCode = Some(0)

\* write_text raised after it had truncated the file
C9_Witness ==
    /\ pc = "failed"
    /\ raisedAt = Some("write")
    /\ outFile = Some(partial_document)
    /\ Len(all_items) > 0
    /\ printed = None

\* the file of the tree a record was made from
FileOf(r) ==
    CHOOSE f \in ReadableFiles : PathOf(f[1], f[2]) = r.path

\* the first line of s that, trimmed, starts with '#', trimmed
FirstHeaderLine(s) ==
    LET lines == splitlines(s)
        hdr == {i \in 1..Len(lines) : startswith_hash(strip(lines[i]))}
    IN  strip(lines[Min(hdr)])

\* C10: the title of every record is the text of the first header of its
\* file or, when the file has no header, the name of the file.
C10_TitleIsHeaderOrFilename ==
    \A i \in 1..Len(all_items) :
        LET r == all_items[i]
            s == FileOf(r)[2].text
        IN  r.title = IF NoHeaderLine(s) THEN r.filename
                      ELSE strip(DropHashes(FirstHeaderLine(s)))

====
